---- MODULE Spec2Model ----
(***************************************************************************)
(* Model of immunity_twitter_bot.py: the "days to herd immunity" bot.      *)
(*                                                                         *)
(* A data frame is a record [columns, rows]; a row maps column names to    *)
(* cells.  A 'Datum' cell is a string; a 'Zweitimpfung' cell is NaN or     *)
(* Num(v).  A calendar day is its proleptic Gregorian ordinal, as in       *)
(* datetime.date.toordinal().  The wall clock is read once per call.       *)
(* pandas behaves as the release the code was written for (1.x).           *)
(* data_dict entries that no later line reads and that hold floats         *)
(* (pct_daily_chg, immu_percent) are left out of the model.                *)
(***************************************************************************)
EXTENDS Integers, Sequences, FiniteSets, TLC

VARIABLES today,       \* ordinal returned by dt.datetime.today() / dt.date.today()
          data_frame,  \* the argument of frame_cleaner / data_preparator; the sheet served at RKI_EXCEL_URL in a run
          clean_out,   \* outcome of frame_cleaner(data_frame)
          prep_out,    \* outcome of data_preparator(data_frame)
          network,     \* "up" or "down": whether requests.get / the twitter API can be reached
          pc,          \* position of the __main__ block
          env,         \* local names bound so far by the __main__ block
          ex,          \* the exception caught by "except Exception as ex", or None
          stdout,      \* lines printed by the __main__ block
          posts,       \* number of api.update_with_media calls that went through
          completed    \* source lines of the try body that ran to completion

vars == <<today, data_frame, clean_out, prep_out, network, pc, env, ex, stdout, posts, completed>>

-----------------------------------------------------------------------------
(* Bounds *)
MaxRawRows == 7    \* dated rows in a raw table handed to frame_cleaner
MaxBody    == 7    \* rows after the optional head row of a series handed to data_preparator
NumTodays  == 3    \* number of reference days

-----------------------------------------------------------------------------
(* Python values *)
None == << >>
NaN  == << >>
Num(v) == << v >>

Min(S) == CHOOSE m \in S : \A o \in S : m <= o

-----------------------------------------------------------------------------
(* datetime: ordinals, calendar fields, strftime *)
MINORDINAL == 1
MAXORDINAL == 3652059
DAYS_IN_MONTH == <<31, 28, 31, 30, 31, 30, 31, 31, 30, 31, 30, 31>>
DAYS_BEFORE_MONTH == <<0, 31, 59, 90, 120, 151, 181, 212, 243, 273, 304, 334>>
MONTH_NAMES == <<"January", "February", "March", "April", "May", "June", "July",
                 "August", "September", "October", "November", "December">>

IsLeap(y) == y % 4 = 0 /\ (y % 100 # 0 \/ y % 400 = 0)

DaysBeforeYear(y) == LET p == y - 1 IN p * 365 + (p \div 4) - (p \div 100) + (p \div 400)

DaysBeforeMonth(y, m) == DAYS_BEFORE_MONTH[m] + (IF m > 2 /\ IsLeap(y) THEN 1 ELSE 0)

Ymd2Ord(y, m, d) == DaysBeforeYear(y) + DaysBeforeMonth(y, m) + d

Ord2Ymd(n) ==
  LET n0   == n - 1
      n400 == n0 \div 146097
      r400 == n0 % 146097
      n100 == r400 \div 36524
      r100 == r400 % 36524
      n4   == r100 \div 1461
      r4   == r100 % 1461
      n1   == r4 \div 365
      r1   == r4 % 365
      year == n400 * 400 + 1 + n100 * 100 + n4 * 4 + n1
      leap == n1 = 3 /\ (n4 # 24 \/ n100 = 3)
      m0   == (r1 + 50) \div 32
      pre0 == DAYS_BEFORE_MONTH[m0] + (IF m0 > 2 /\ leap THEN 1 ELSE 0)
      month == IF pre0 > r1 THEN m0 - 1 ELSE m0
      pre  == IF pre0 > r1
              THEN pre0 - (DAYS_IN_MONTH[month] + (IF month = 2 /\ leap THEN 1 ELSE 0))
              ELSE pre0
  IN  IF n1 = 4 \/ n100 = 4
      THEN [year |-> year - 1, month |-> 12, day |-> 31]
      ELSE [year |-> year, month |-> month, day |-> r1 - pre + 1]

Pad2(n) == IF n < 10 THEN "0" \o ToString(n) ELSE ToString(n)

\* strftime('%d.%m.%Y')
StrfDMY(o) == LET c == Ord2Ymd(o) IN Pad2(c.day) \o "." \o Pad2(c.month) \o "." \o ToString(c.year)

\* strftime('%d.%m.')
StrfDM(o) == LET c == Ord2Ymd(o) IN Pad2(c.day) \o "." \o Pad2(c.month) \o "."

\* The reference days, and the days a 'Datum' string of a table can denote.
FirstToday == Ymd2Ord(2021, 12, 31)
Todays == FirstToday .. (FirstToday + NumTodays - 1)
ParseWindow == (FirstToday - (MaxRawRows + MaxBody + 10)) .. (FirstToday + NumTodays + 1)

DMYTable == [o \in ParseWindow |-> StrfDMY(o)]
DMTable  == [o \in ParseWindow |-> StrfDM(o)]

\* pd.to_datetime(s, format='%d.%m.%Y'): the day s denotes, None when s does not parse.
ToDatetime(s) ==
  IF \E o \in ParseWindow : DMYTable[o] = s
  THEN Num(CHOOSE o \in ParseWindow : DMYTable[o] = s)
  ELSE None

-----------------------------------------------------------------------------
(* Outcomes of a call *)
Returned(v, log) == [status |-> "returned", value |-> v, exc |-> "", line |-> 0, log |-> log]
Raised(e, l, v, log) == [status |-> "raised", value |-> v, exc |-> e, line |-> l, log |-> log]
NotCalled == [status |-> "not-called", value |-> None, exc |-> "", line |-> 0, log |-> << >>]

-----------------------------------------------------------------------------
(* frame_cleaner *)
WARN_NO_VALUES == "DataFrame contains no usable values in last 7 days"

\* data_frame[data_frame['Datum'] == current_day_clean].index.values, 0-based
day_index(df, t, day) ==
  { i - 1 : i \in { j \in 1..Len(df.rows) : df.rows[j]["Datum"] = DMYTable[t - day] } }

\* lines 38-47: the index of the row of the most recent of the 7 days that has one
first_day_index(df, t) ==
  LET found == { day \in 0..6 : day_index(df, t, day) # {} }
  IN  IF found = {} THEN None ELSE Num(Min(day_index(df, t, Min(found))))

\* data_frame.iloc[:k]
IlocUpTo(df, k) == [df EXCEPT !.rows = SubSeq(df.rows, 1, IF k < Len(df.rows) THEN k ELSE Len(df.rows))]

frame_cleaner(df, t) ==
  LET fdi == first_day_index(df, t)
      log == IF fdi = None THEN << WARN_NO_VALUES >> ELSE << >>
  IN  IF "Datum" \notin df.columns THEN Raised("KeyError", 42, None, << >>)
      ELSE IF fdi = None THEN Raised("TypeError", 52, None, log)
      ELSE LET cut == IlocUpTo(df, fdi[1] + 1)
               bad == { i \in 1..Len(cut.rows) : ToDatetime(cut.rows[i]["Datum"]) = None }
           IN  IF bad # {} THEN Raised("ValueError", 53, None, log)
               ELSE Returned([cut EXCEPT !.rows =
                                [i \in 1..Len(cut.rows) |->
                                   [cut.rows[i] EXCEPT !["Datum"] = DMTable[ToDatetime(cut.rows[i]["Datum"])[1]]]]],
                             log)

-----------------------------------------------------------------------------
(* data_preparator *)
WARN_COLUMN == "Column name in RKI data has changed"
GER_POP == 83000000
ROLLING_WINDOW == 7
MONTH_SEGMENTS == <<"early ", "mid-", "late ">>

\* int(x) of the quotient num/den: truncation toward zero
IntTrunc(num, den) ==
  LET an == IF num < 0 THEN -num ELSE num
      ad == IF den < 0 THEN -den ELSE den
  IN  IF (num < 0) = (den < 0) THEN an \div ad ELSE -(an \div ad)

RECURSIVE SumCells(_, _, _)
\* sum of the cells lo..hi of a column, missing cells skipped
SumCells(cells, lo, hi) ==
  IF lo > hi THEN 0
  ELSE (IF cells[hi] = NaN THEN 0 ELSE cells[hi][1]) + SumCells(cells, lo, hi - 1)

\* data_frame[name] as a sequence of cells
Column(df, name) == [i \in 1..Len(df.rows) |-> df.rows[i][name]]

\* a rolling mean that forgets the window and averages every row up to row i
RollingMeanExpanding(cells, w, i) ==
  IF i < w \/ \E j \in 1..i : cells[j] = NaN
  THEN NaN
  ELSE Num(<<SumCells(cells, 1, i), i>>)

\* series.rolling(w).mean() at row i (1-based): NaN unless the w rows ending at i
\* exist and all hold a value; otherwise the window's sum over w, as <<sum, w>>
RollingMean(cells, w, i) ==
  IF i < w \/ \E j \in (i - w + 1)..i : cells[j] = NaN
  THEN NaN
  ELSE Num(<<SumCells(cells, i - w + 1, i), w>>)

\* series.cumsum().iloc[-1]: NaN at a missing last cell, else the sum of the cells that hold a value
CumSumLast(cells) ==
  IF cells[Len(cells)] = NaN THEN NaN ELSE Num(SumCells(cells, 1, Len(cells)))

\* line 81: int(GER_POP * 0.7)
HerdPop == (GER_POP * 7) \div 10

\* line 94: int(avg_days_month // 3) with avg_days_month = 30.43
month_third == (3043 \div 100) \div 3

\* line 96: range((third + 1) * month_third) for third in range(3), third 1-based here
month_range(third) == 0 .. (third * month_third - 1)

\* line 102: the segments whose range holds the day, in list order
target_thirds(day) == { third \in 1..3 : day \in month_range(third) }

\* lines 72-77: the entries of data_dict set before the population figures
DictAfter77(df) ==
  LET col == Column(df, "Zweitimpfung")
      avg == RollingMean(col, ROLLING_WINDOW, Len(col))[1]
  IN  ("data_as_of" :> df.rows[Len(df.rows)]["Datum"]) @@
      ("avg_daily_vacs" :> IntTrunc(avg[1], avg[2]))

\* lines 81-85
DictAfter85(df) ==
  LET d == DictAfter77(df)
      immu == CumSumLast(Column(df, "Zweitimpfung"))[1]
  IN  d @@ ("herd_pop" :> HerdPop) @@ ("immu_pop" :> immu) @@ ("missing_pop" :> HerdPop - immu)

\* floor(num / den) for den > 0
Floor(num, den) == IF num >= 0 THEN num \div den ELSE -(((-num) + den - 1) \div den)

\* the quotient of line 86 taken with floor division (//) instead of int(a / b)
DaysToHerdFloorDiv(missing_pop, avg_daily_vacs) == Floor(missing_pop, avg_daily_vacs)

\* line 86
DaysToHerd(missing_pop, avg_daily_vacs) == IntTrunc(missing_pop, avg_daily_vacs)

data_preparator(df, t) ==
  LET log == IF "Zweitimpfung" \notin df.columns THEN << WARN_COLUMN >> ELSE << >>
      empty == [k \in {} |-> 0]
  IN
  IF "Datum" \notin df.columns THEN Raised("KeyError", 72, empty, log)
  ELSE IF Len(df.rows) = 0 THEN Raised("IndexError", 72, empty, log)
  ELSE IF "Zweitimpfung" \notin df.columns
       THEN Raised("KeyError", 74, "data_as_of" :> df.rows[Len(df.rows)]["Datum"], log)
  ELSE IF RollingMean(Column(df, "Zweitimpfung"), ROLLING_WINDOW, Len(df.rows)) = NaN
       THEN Raised("ValueError", 77, "data_as_of" :> df.rows[Len(df.rows)]["Datum"], log)
  ELSE LET d85 == DictAfter85(df)
       IN
       IF d85["avg_daily_vacs"] = 0 THEN Raised("ZeroDivisionError", 86, d85, log)
       ELSE LET days == DaysToHerd(d85["missing_pop"], d85["avg_daily_vacs"])
                d86  == d85 @@ ("days_to_herd" :> days)
                target == t + days
            IN
            IF target < MINORDINAL \/ target > MAXORDINAL THEN Raised("OverflowError", 89, d86, log)
            ELSE LET target_date == Ord2Ymd(target)
                     thirds == target_thirds(target_date.day)
                 IN
                 IF thirds = {} THEN Raised("IndexError", 102, d86, log)
                 ELSE Returned(d86 @@ ("immunity_month_string" :>
                                         MONTH_SEGMENTS[Min(thirds)] \o MONTH_NAMES[target_date.month]
                                           \o " " \o ToString(target_date.year)),
                               log)

-----------------------------------------------------------------------------
(* The __main__ block, lines 156-166.  pc is the source line about to run. *)
LINE_MAIN   == 156
LINE_EXCEPT == 166
LINE_END    == 167

NoException == [type |-> "", msg |-> "", line |-> 0]

\* Names bound at module level when line 156 is reached: the imports, the
\* constant and the functions defined above it.
MODULE_NAMES ==
  { "urllib", "pd", "plt", "mpimg", "StrMethodFormatter", "sns", "xlrd", "requests",
    "dt", "os", "tweepy", "config", "logging", "RKI_EXCEL_URL", "file_downloader",
    "frame_cleaner", "data_preparator", "vac_plotter", "twitter_texter", "twitter_poster" }

BUILTIN_NAMES == { "print", "Exception", "range", "len", "int", "list", "zip", "dict" }

\* number of required positional parameters of the functions a statement can call
PARAMS == [file_downloader |-> 1, frame_cleaner |-> 1, data_preparator |-> 1,
           vac_plotter |-> 2, twitter_texter |-> 1, twitter_poster |-> 1, print |-> 1]

\* The statements of the try body: the names each loads, in evaluation order,
\* the function it calls with how many arguments, and the name it binds.
TryBody ==
  [l \in 158..164 |->
     CASE l = 158 -> [loads |-> <<"tbh">>, call |-> "", nargs |-> 0, target |-> "url"]
       [] l = 159 -> [loads |-> <<"file_downloader", "url">>, call |-> "file_downloader", nargs |-> 1, target |-> "vac_file"]
       [] l = 160 -> [loads |-> <<"frame_cleaner", "vac_file">>, call |-> "frame_cleaner", nargs |-> 1, target |-> "clean_frame"]
       [] l = 161 -> [loads |-> <<"days_to_immunity", "clean_frame">>, call |-> "days_to_immunity", nargs |-> 1, target |-> "immu_days"]
       [] l = 162 -> [loads |-> <<"image_generator", "immu_days">>, call |-> "image_generator", nargs |-> 1, target |-> "img"]
       [] l = 163 -> [loads |-> <<"twitter_poster">>, call |-> "twitter_poster", nargs |-> 0, target |-> ""]
       [] l = 164 -> [loads |-> <<"print">>, call |-> "print", nargs |-> 1, target |-> ""]]

\* str() of an exception raised inside a called function
CalleeMessage(exc, line) ==
  CASE exc = "TypeError" -> "unsupported operand type(s) for +: 'NoneType' and 'int'"
    [] exc = "ValueError" /\ line = 53 -> "time data 'Gesamt' does not match format '%d.%m.%Y'"
    [] exc = "KeyError" -> "'Datum'"
    [] OTHER -> exc

\* The exception the statement at line l raises, NoException when it completes;
\* cleaned is the outcome of frame_cleaner on the downloaded sheet.
Raises(l, bound, net, cleaned) ==
  LET st == TryBody[l]
      known == MODULE_NAMES \cup BUILTIN_NAMES \cup bound
      missing == { i \in 1..Len(st.loads) : st.loads[i] \notin known }
  IN  IF missing # {}
      THEN [type |-> "NameError", msg |-> "name '" \o st.loads[Min(missing)] \o "' is not defined", line |-> l]
      ELSE IF st.call \in DOMAIN PARAMS /\ st.nargs # PARAMS[st.call]
      THEN [type |-> "TypeError",
            msg |-> st.call \o "() missing 1 required positional argument: 'text'", line |-> l]
      ELSE IF st.call = "file_downloader" /\ net = "down"
      THEN [type |-> "ConnectionError", msg |-> "Max retries exceeded with url", line |-> 29]
      ELSE IF st.call = "twitter_poster" /\ net = "down"
      THEN [type |-> "TweepError", msg |-> "Failed to send request", line |-> 154]
      ELSE IF st.call = "frame_cleaner" /\ cleaned.status = "raised"
      THEN [type |-> cleaned.exc, msg |-> CalleeMessage(cleaned.exc, cleaned.line), line |-> cleaned.line]
      ELSE NoException

\* a try body whose exceptions are swallowed statement by statement
OnRaiseContinue(l) == IF l = 164 THEN LINE_END ELSE l + 1

\* where control goes when the statement at line l raises: the except clause
OnRaise(l) == LINE_EXCEPT

\* where control goes when the statement at line l completes
OnComplete(l) == IF l = 164 THEN LINE_END ELSE l + 1

-----------------------------------------------------------------------------
(* Inputs *)
COLUMNS == {"Datum", "Zweitimpfung"}

\* n copies of the cell x
Repeat(x, n) == [i \in 1..n |-> x]

\* The columns of n or fewer cells made of a run of one cell of S then a run of another.
Runs(S, n) ==
  { Repeat(a, i) \o Repeat(b, j) : a \in S, b \in S, i \in 0..n, j \in 0..n } \cap
  UNION { [1..k -> S] : k \in 0..n }

\* A row of the sheet that carries text instead of a date.
TextRow == [Datum |-> "Gesamt", Zweitimpfung |-> Num(1)]

\* A raw table: consecutive days ending at day `last`, with a text row below or above them, or none.
RawTable(last, cells, text) ==
  LET n == Len(cells)
      dated == [i \in 1..n |-> [Datum |-> DMYTable[last - (n - i)], Zweitimpfung |-> cells[i]]]
  IN  [columns |-> COLUMNS,
       rows |-> CASE text = "below" -> Append(dated, TextRow)
                  [] text = "above" -> << TextRow >> \o dated
                  [] OTHER -> dated]

RawTables(t) ==
  { RawTable(last, cells, text) :
      last \in (t - 8) .. (t + 1), cells \in Runs({NaN, Num(1)}, MaxRawRows),
      text \in {"none", "below", "above"} }

\* A cleaned series: an optional head row, MaxBody or fewer daily rows, an optional
\* row without a count; the rows are the days up to the day before t.
Series(t, cells, columns) ==
  LET n == Len(cells)
  IN  [columns |-> columns,
       rows |-> [i \in 1..n |->
                   IF "Zweitimpfung" \in columns
                   THEN [Datum |-> DMTable[t - 1 - (n - i)], Zweitimpfung |-> cells[i]]
                   ELSE [Datum |-> DMTable[t - 1 - (n - i)], Impfungen |-> cells[i]]]]

HeadCells == { << >>, << NaN >>, << Num(47900000) >>, << Num(60000000) >> }
BodyCells == { Num(0), Num(1), Num(300000) }

SeriesSet(t) ==
  { Series(t, head \o body \o tail, COLUMNS) :
      head \in HeadCells, body \in Runs(BodyCells, MaxBody), tail \in { << >>, << NaN >> } }
  \cup { Series(t, body, {"Datum", "Impfungen"}) : body \in Runs({Num(300000)}, MaxBody) }

\* The sheets a run can be served.
Sheets(t) ==
  { RawTable(last, cells, text) :
      last \in {t - 7, t - 1, t}, cells \in Runs({NaN, Num(0), Num(300000)}, MaxRawRows),
      text \in {"none"} }

MainIdle == /\ network = "up" /\ pc = LINE_MAIN /\ env = {} /\ ex = NoException
            /\ stdout = << >> /\ posts = 0 /\ completed = {}

InitClean ==
  /\ today \in Todays
  /\ data_frame \in RawTables(today)
  /\ clean_out = NotCalled
  /\ prep_out = NotCalled
  /\ MainIdle

FrameCleaner ==
  /\ clean_out.status = "not-called"
  /\ clean_out' = frame_cleaner(data_frame, today)
  /\ UNCHANGED <<today, data_frame, prep_out, network, pc, env, ex, stdout, posts, completed>>

NextClean == FrameCleaner

SpecClean == InitClean /\ [][NextClean]_vars

InitPrep ==
  /\ today \in Todays
  /\ data_frame \in SeriesSet(today)
  /\ clean_out = NotCalled
  /\ prep_out = NotCalled
  /\ MainIdle

DataPreparator ==
  /\ prep_out.status = "not-called"
  /\ prep_out' = data_preparator(data_frame, today)
  /\ UNCHANGED <<today, data_frame, clean_out, network, pc, env, ex, stdout, posts, completed>>

NextPrep == DataPreparator

SpecPrep == InitPrep /\ [][NextPrep]_vars

InitMain ==
  /\ today \in Todays
  /\ data_frame \in Sheets(today)
  /\ clean_out = NotCalled
  /\ prep_out = NotCalled
  /\ network \in {"up", "down"}
  /\ pc = LINE_MAIN /\ env = {} /\ ex = NoException
  /\ stdout = << >> /\ posts = 0 /\ completed = {}

\* line 156-157: the script is run as a program and enters the try block
MainEnter ==
  /\ pc = LINE_MAIN
  /\ pc' = 158
  /\ UNCHANGED <<today, data_frame, clean_out, prep_out, network, env, ex, stdout, posts, completed>>

\* lines 158-164: one statement of the try body
MainTry ==
  /\ pc \in DOMAIN TryBody
  /\ LET st == TryBody[pc]
         cleaned == frame_cleaner(data_frame, today)
         e == Raises(pc, env, network, cleaned)
     IN  IF e # NoException
         THEN /\ ex' = e
              /\ pc' = OnRaise(pc)
              /\ UNCHANGED <<env, stdout, posts, completed, clean_out>>
         ELSE /\ pc' = OnComplete(pc)
              /\ completed' = completed \cup {pc}
              /\ env' = IF st.target = "" THEN env ELSE env \cup {st.target}
              /\ posts' = IF st.call = "twitter_poster" THEN posts + 1 ELSE posts
              /\ stdout' = IF st.call = "print" THEN Append(stdout, "Bot ran successfully") ELSE stdout
              /\ clean_out' = IF st.call = "frame_cleaner" THEN cleaned ELSE clean_out
              /\ ex' = ex
  /\ UNCHANGED <<today, data_frame, prep_out, network>>

\* lines 165-166: except Exception as ex: print(ex)
MainExcept ==
  /\ pc = LINE_EXCEPT
  /\ stdout' = Append(stdout, ex.msg)
  /\ pc' = LINE_END
  /\ UNCHANGED <<today, data_frame, clean_out, prep_out, network, env, ex, posts, completed>>

NextMain == MainEnter \/ MainTry \/ MainExcept

SpecMain == InitMain /\ [][NextMain]_vars

-----------------------------------------------------------------------------
(* Properties of frame_cleaner, under SpecClean *)
Cleaned == clean_out.status # "not-called"

AllDated(df) == \A i \in 1..Len(df.rows) : ToDatetime(df.rows[i]["Datum"]) # None

\* a missing-value row dated t and a row with a value for each of the 6 days before t
TodayPlaceholder(df, t) ==
  /\ \E i \in 1..Len(df.rows) :
       df.rows[i]["Datum"] = DMYTable[t] /\ df.rows[i]["Zweitimpfung"] = NaN
  /\ \A k \in 1..6 : \E i \in 1..Len(df.rows) :
       df.rows[i]["Datum"] = DMYTable[t - k] /\ df.rows[i]["Zweitimpfung"] # NaN

\* C1: for a chronological table with a placeholder row dated today and valid
\* rows for the 6 days before, frame_cleaner returns a table without the today
\* row whose last row is the row of yesterday.
C1_TodayRowExcluded ==
  (Cleaned /\ AllDated(data_frame) /\ TodayPlaceholder(data_frame, today))
    => /\ clean_out.status = "returned"
       /\ \A i \in 1..Len(clean_out.value.rows) : clean_out.value.rows[i]["Datum"] # DMTable[today]
       /\ clean_out.value.rows[Len(clean_out.value.rows)]["Datum"] = DMTable[today - 1]

NoMatchInWindow(df, t) ==
  \A day \in 0..6 : \A i \in 1..Len(df.rows) : df.rows[i]["Datum"] # DMYTable[t - day]

\* C2: when no row is dated today, today-1, ..., today-6, frame_cleaner does not
\* fail: it logs the diagnostic and returns every row of the input table.
C2_NoMatchReturnsWholeTable ==
  (Cleaned /\ NoMatchInWindow(data_frame, today))
    => /\ clean_out.status = "returned"
       /\ WARN_NO_VALUES \in { clean_out.log[i] : i \in 1..Len(clean_out.log) }
       /\ Len(clean_out.value.rows) = Len(data_frame.rows)
       /\ \A i \in 1..Len(data_frame.rows) :
            clean_out.value.rows[i]["Zweitimpfung"] = data_frame.rows[i]["Zweitimpfung"]

\* C8: every row of a table that frame_cleaner returns has a valid date and a
\* non-missing 'Zweitimpfung' value; the last row is never a placeholder row.
C8_CleanSeriesInvariant ==
  clean_out.status = "returned"
    => \A i \in 1..Len(clean_out.value.rows) :
         /\ clean_out.value.rows[i]["Zweitimpfung"] # NaN
         /\ \E o \in ParseWindow : DMTable[o] = clean_out.value.rows[i]["Datum"]

-----------------------------------------------------------------------------
(* Properties of data_preparator, under SpecPrep *)
Prepared == prep_out.status # "not-called"

Stored(key) == key \in DOMAIN prep_out.value

HasCounts(df) == "Zweitimpfung" \in df.columns

NoMissingCounts(df) == \A i \in 1..Len(df.rows) : df.rows[i]["Zweitimpfung"] # NaN

\* the sum of the last 7 counts of a series of 7 rows or more without missing counts
SumLast7(df) ==
  LET n == Len(df.rows)
  IN  df.rows[n]["Zweitimpfung"][1] + df.rows[n - 1]["Zweitimpfung"][1]
        + df.rows[n - 2]["Zweitimpfung"][1] + df.rows[n - 3]["Zweitimpfung"][1]
        + df.rows[n - 4]["Zweitimpfung"][1] + df.rows[n - 5]["Zweitimpfung"][1]
        + df.rows[n - 6]["Zweitimpfung"][1]

\* C9: for a clean series of 7 rows or more without missing counts, the rolling
\* average at the final row is the mean of the last 7 counts, sum/7, and
\* avg_daily_vacs is that mean truncated to an integer.
C9_AverageOfLastSeven ==
  (Prepared /\ HasCounts(data_frame) /\ Len(data_frame.rows) >= 7 /\ NoMissingCounts(data_frame))
    => /\ RollingMean(Column(data_frame, "Zweitimpfung"), ROLLING_WINDOW, Len(data_frame.rows))
            = Num(<<SumLast7(data_frame), 7>>)
       /\ Stored("avg_daily_vacs")
       /\ 7 * prep_out.value["avg_daily_vacs"] <= SumLast7(data_frame)
       /\ SumLast7(data_frame) < 7 * (prep_out.value["avg_daily_vacs"] + 1)

\* C9 witness: 8 rows, a large first count outside the window, two counts of
\* 300000 inside it: the average is 600000/7 truncated.
C9_Witness ==
  /\ Prepared /\ HasCounts(data_frame) /\ Len(data_frame.rows) = 8 /\ NoMissingCounts(data_frame)
  /\ data_frame.rows[1]["Zweitimpfung"] = Num(47900000)
  /\ Stored("avg_daily_vacs") /\ prep_out.value["avg_daily_vacs"] = 85714

\* C6 as stated: what data_preparator returns for a non-zero rate has
\* missing_pop = herd_pop - immu_pop and days_to_herd = floor(missing_pop /
\* avg_daily_vacs), also for a negative missing_pop.
C6_DaysIsFloor ==
  (prep_out.status = "returned" /\ prep_out.value["avg_daily_vacs"] # 0)
    => /\ prep_out.value["missing_pop"] = prep_out.value["herd_pop"] - prep_out.value["immu_pop"]
       /\ prep_out.value["days_to_herd"]
            = Floor(prep_out.value["missing_pop"], prep_out.value["avg_daily_vacs"])

Abs(x) == IF x < 0 THEN -x ELSE x

\* C6 amended: whenever days_to_herd is stored, missing_pop = herd_pop - immu_pop
\* and days_to_herd is missing_pop / avg_daily_vacs truncated toward zero: it has
\* the sign of missing_pop (or is 0) and |days| * rate <= |missing| < (|days| + 1) * rate.
\* With herd_pop 58,100,000, immu_pop 50,000,000 and rate 300,000: 8,100,000 and 27.
C6_DaysIsTruncation ==
  (Prepared /\ Stored("days_to_herd"))
    => LET d == prep_out.value
       IN  /\ d["avg_daily_vacs"] # 0
           /\ d["herd_pop"] = 58100000
           /\ d["missing_pop"] = d["herd_pop"] - d["immu_pop"]
           /\ Abs(d["days_to_herd"]) * d["avg_daily_vacs"] <= Abs(d["missing_pop"])
           /\ Abs(d["missing_pop"]) < (Abs(d["days_to_herd"]) + 1) * d["avg_daily_vacs"]
           /\ (d["days_to_herd"] > 0 => d["missing_pop"] > 0)
           /\ (d["days_to_herd"] < 0 => d["missing_pop"] < 0)
           /\ (d["immu_pop"] = 50000000 /\ d["avg_daily_vacs"] = 300000
                 => d["missing_pop"] = 8100000 /\ d["days_to_herd"] = 27)

\* C6 witness: a returned result past the threshold whose quotient is not whole:
\* -4,000,000 / 300,000 gives -13, where the floor is -14.
C6_Witness ==
  /\ prep_out.status = "returned"
  /\ prep_out.value["missing_pop"] = -4000000
  /\ prep_out.value["avg_daily_vacs"] = 300000
  /\ prep_out.value["days_to_herd"] = -13

\* C7: the result of data_preparator holds sustainable_rate = floor(herd_pop /
\* (5 x 30.43)), which is 381,861 for herd_pop = 58,100,000.
C7_SustainableRate ==
  prep_out.status = "returned"
    => /\ Stored("sustainable_rate")
       /\ prep_out.value["herd_pop"] = 58100000
       /\ prep_out.value["sustainable_rate"] = 381861

\* C10: once the target date today + days_to_herd exists, whatever its day of
\* the month, exactly one of early / mid / late is selected and the string
\* '<segment><Month> <Year>' is returned; the classification never fails.
C10_SegmentForEveryDay ==
  (Prepared /\ Stored("days_to_herd")
     /\ today + prep_out.value["days_to_herd"] \in MINORDINAL..MAXORDINAL)
    => /\ prep_out.status = "returned"
       /\ Stored("immunity_month_string")
       /\ LET c == Ord2Ymd(today + prep_out.value["days_to_herd"])
          IN  \E i \in 1..3 :
                prep_out.value["immunity_month_string"]
                  = MONTH_SEGMENTS[i] \o MONTH_NAMES[c.month] \o " " \o ToString(c.year)

-----------------------------------------------------------------------------
(* Properties of a run of the __main__ block, under SpecMain *)

\* the sheet served is one whose cleaned series has a 7-day average that truncates to 0
Degenerate(df, t) ==
  LET o == frame_cleaner(df, t)
  IN  /\ o.status = "returned"
      /\ LET col == Column(o.value, "Zweitimpfung")
             avg == RollingMean(col, ROLLING_WINDOW, Len(col))
         IN  avg # NaN /\ IntTrunc(avg[1][1], avg[1][2]) = 0

\* C3: a run whose series has an average rate truncating to 0 never stores
\* days_to_herd and ends in the degeneracy error, an outcome no other failure
\* of the run has; it never ends in an unbounded value.
C3_DegeneracyIsDistinct ==
  (pc = LINE_END /\ network = "up" /\ Degenerate(data_frame, today))
    => /\ ~ Stored("days_to_herd")
       /\ ex.type = "ZeroDivisionError"
       /\ stdout = << ex.msg >>
       /\ posts = 0

\* an exception raised inside a called function (data or network), not by a
\* statement of the __main__ block itself
DataOrNetworkError == ex # NoException /\ ex.line < LINE_MAIN

\* C4: a run that meets no data or network error ends as a success with
\* exactly one post; no run posts more than once.
C4_SuccessPostsOnce ==
  /\ posts <= 1
  /\ (pc = LINE_END /\ ~ DataOrNetworkError)
       => /\ posts = 1
          /\ stdout = << "Bot ran successfully" >>

\* C5: the post is made only after the fetch, clean and derive lines of the same
\* run completed without error; an error aborts the run, its diagnostic is
\* printed, and no post is made.
C5_NoPostAfterError ==
  /\ posts > 0 => ({159, 160, 161} \subseteq completed /\ (ex = NoException \/ pc = LINE_EXCEPT \/ pc = LINE_END))
  /\ ex # NoException => (pc \in {LINE_EXCEPT, LINE_END} /\ posts = 0 /\ completed \cap {163, 164} = {})
  /\ (pc = LINE_END /\ ex # NoException) => stdout = << ex.msg >>

\* C5 witness: a run that failed before the fetch completed has printed its
\* diagnostic and posted nothing.
C5_Witness ==
  /\ pc = LINE_END /\ ex # NoException
  /\ 159 \notin completed
  /\ stdout = << ex.msg >>
  /\ posts = 0

====
